---------------------------- MODULE Spec2Model ----------------------------
(***************************************************************************)
(* A model of distance3d: the geometry distance kernel (distance.py) and   *)
(* the hydroelastic contact-force pipeline (pressure_field.py).            *)
(*                                                                         *)
(* Numbers.  The code computes with IEEE doubles.  The model computes with *)
(* exact rationals <<n, d>> (d > 0, lowest terms) and one more value, NaN  *)
(* (<<0, 0>>), which is what numpy returns for 0/0.  np.linalg.norm(v) is  *)
(* carried as its square, norm_sq(v): the square root is strictly          *)
(* increasing on the non-negative numbers, so two distances are equal, or  *)
(* ordered, exactly as their squares are.                                  *)
(*                                                                         *)
(* Indices.  Python indexes from 0, the model's sequences from 1.          *)
(***************************************************************************)
EXTENDS Integers, Sequences, FiniteSets, TLC

VARIABLES
    pc,     \* the position in the function being run
    args,   \* the arguments of the call
    loc,    \* the function's local variables (and the calls it has made)
    ret     \* the value returned

vars == <<pc, args, loc, ret>>

(***************************************************************************)
(* Bounds of the model.                                                    *)
(***************************************************************************)
\* x coordinates of the points handed to point_to_line_segment: 0..MaxPointCoord
MaxPointCoord == 2
\* x coordinates of the end points of the segments handed to
\* line_segment_to_line_segment: 0..MaxSegCoord
MaxSegCoord == 2
\* the vertices of the single tetrahedron handed to the plane-straddle test and
\* to the projector lie at -MaxDist..MaxDist along the plane normal
MaxDist == 2
\* the potentials of a mesh handed to contact_forces are 1..MaxPotential
MaxPotential == 2
\* the contact point the penetration query reports lies at 0..MaxPlaneOffset
\* along the contact normal
MaxPlaneOffset == 1
\* the tolerances handed to the kernel are k/2 for k in 1..MaxEpsHalves
MaxEpsHalves == 3

None == "None"

(***************************************************************************)
(* Exact arithmetic standing for the float arithmetic of the code.         *)
(***************************************************************************)
NaN == <<0, 0>>

IAbs(n) == IF n < 0 THEN -n ELSE n

RECURSIVE Gcd(_, _)
Gcd(a, b) == IF b = 0 THEN a ELSE Gcd(b, a % b)

\* the rational n/d in lowest terms with a positive denominator
Q(n, d) ==
    IF d = 0 THEN NaN
    ELSE LET g == Gcd(IAbs(n), IAbs(d))
             s == IF d < 0 THEN -1 ELSE 1
         IN  <<(s * n) \div g, (s * d) \div g>>

R(n) == <<n, 1>>
Zero == R(0)
One == R(1)

IsNaN(x) == x[2] = 0

RAdd(x, y) == IF IsNaN(x) \/ IsNaN(y) THEN NaN
              ELSE Q(x[1] * y[2] + y[1] * x[2], x[2] * y[2])
RNeg(x) == IF IsNaN(x) THEN NaN ELSE <<-x[1], x[2]>>
RSub(x, y) == RAdd(x, RNeg(y))
RMul(x, y) == IF IsNaN(x) \/ IsNaN(y) THEN NaN
              ELSE Q(x[1] * y[1], x[2] * y[2])
\* x / y; 0/0 is nan.  (A non-zero numerator over 0 would be an infinity; no
\* modelled call divides a non-zero number by 0.)
RDiv(x, y) == IF IsNaN(x) \/ IsNaN(y) THEN NaN
              ELSE Q(x[1] * y[2], x[2] * y[1])
\* comparisons; every comparison with nan is false
RLt(x, y) == ~IsNaN(x) /\ ~IsNaN(y) /\ x[1] * y[2] < y[1] * x[2]
RLe(x, y) == ~IsNaN(x) /\ ~IsNaN(y) /\ x[1] * y[2] <= y[1] * x[2]
RGt(x, y) == RLt(y, x)
RGe(x, y) == RLe(y, x)
REq(x, y) == ~IsNaN(x) /\ ~IsNaN(y) /\ x = y
RAbs(x) == IF IsNaN(x) THEN NaN ELSE <<IAbs(x[1]), x[2]>>

\* Python's built-in max(a, b) and min(a, b): the first argument unless the
\* second compares greater (smaller); so max(nan, 0.0) is nan
PyMax(a, b) == IF RGt(b, a) THEN b ELSE a
PyMin(a, b) == IF RLt(b, a) THEN b ELSE a

(***************************************************************************)
(* Vectors of shape (3,).                                                  *)
(***************************************************************************)
VAdd(u, v) == <<RAdd(u[1], v[1]), RAdd(u[2], v[2]), RAdd(u[3], v[3])>>
VSub(u, v) == <<RSub(u[1], v[1]), RSub(u[2], v[2]), RSub(u[3], v[3])>>
VScale(t, v) == <<RMul(t, v[1]), RMul(t, v[2]), RMul(t, v[3])>>
VNeg(v) == <<RNeg(v[1]), RNeg(v[2]), RNeg(v[3])>>
Dot(u, v) == RAdd(RAdd(RMul(u[1], v[1]), RMul(u[2], v[2])), RMul(u[3], v[3]))
Cross(u, v) ==
    <<RSub(RMul(u[2], v[3]), RMul(u[3], v[2])),
      RSub(RMul(u[3], v[1]), RMul(u[1], v[3])),
      RSub(RMul(u[1], v[2]), RMul(u[2], v[1]))>>
\* the square of np.linalg.norm(v)
norm_sq(v) == Dot(v, v)
VZero == <<Zero, Zero, Zero>>
UnitX == <<One, Zero, Zero>>
VIsNaN(v) == IsNaN(v[1]) \/ IsNaN(v[2]) \/ IsNaN(v[3])

(***************************************************************************)
(* distance.py: point_to_line_segment                                      *)
(***************************************************************************)
point_to_line_segment_noclamp1(point, segment_start, segment_end) ==
    LET segment_direction == VSub(segment_end, segment_start)
        t0 == RDiv(Dot(VSub(point, segment_start), segment_direction),
                   Dot(segment_direction, segment_direction))
        t == PyMax(t0, Zero)
        contact_point == VAdd(segment_start, VScale(t, segment_direction))
    IN  [distance_sq |-> norm_sq(VSub(point, contact_point)),
         contact_point |-> contact_point]

point_to_line_segment(point, segment_start, segment_end) ==
    LET segment_direction == VSub(segment_end, segment_start)
        t0 == RDiv(Dot(VSub(point, segment_start), segment_direction),
                   Dot(segment_direction, segment_direction))
        t == PyMin(PyMax(t0, Zero), One)
        contact_point == VAdd(segment_start, VScale(t, segment_direction))
    IN  [distance_sq |-> norm_sq(VSub(point, contact_point)),
         contact_point |-> contact_point]

(***************************************************************************)
(* distance.py: line_segment_to_line_segment.  The record returned holds   *)
(* the code's triple and, beside it, the locals s and t the contact points *)
(* were built from and the branch taken (None where the code sets none).   *)
(***************************************************************************)
Clamp01(x) == PyMin(PyMax(x, Zero), One)

lsls_result(segment_start1, d1, segment_start2, d2, s, t, branch) ==
    LET contact_point1 == VAdd(segment_start1, VScale(s, d1))
        contact_point2 == VAdd(segment_start2, VScale(t, d2))
    IN  [distance_sq |-> norm_sq(VSub(contact_point2, contact_point1)),
         contact_point1 |-> contact_point1,
         contact_point2 |-> contact_point2,
         s |-> s, t |-> t, branch |-> branch]

\* the general branch with the final re-clamping of t left out
lsls_general_noreclamp(d1, d2, r, a, e, c, f) ==
    LET b == Dot(d1, d2)
        denom == RSub(RMul(a, e), RMul(b, b))
        s0 == IF denom # Zero
              THEN Clamp01(RDiv(RSub(RMul(b, f), RMul(c, e)), denom))
              ELSE Zero
        t0 == RDiv(RAdd(RMul(b, s0), f), e)
    IN  <<s0, t0>>

\* lines 288-308: the general nondegenerate case; <<s, t>>
lsls_general(d1, d2, r, a, e, c, f) ==
    LET b == Dot(d1, d2)
        denom == RSub(RMul(a, e), RMul(b, b))
        s0 == IF denom # Zero
              THEN Clamp01(RDiv(RSub(RMul(b, f), RMul(c, e)), denom))
              ELSE Zero
        t0 == RDiv(RAdd(RMul(b, s0), f), e)
    IN  IF RLt(t0, Zero) THEN <<Clamp01(RDiv(RNeg(c), a)), Zero>>
        ELSE IF RGt(t0, One) THEN <<Clamp01(RDiv(RSub(b, c), a)), One>>
        ELSE <<s0, t0>>

line_segment_to_line_segment(segment_start1, segment_end1, segment_start2, segment_end2, epsilon) ==
    LET d1 == VSub(segment_end1, segment_start1)
        d2 == VSub(segment_end2, segment_start2)
        a == Dot(d1, d1)
        e == Dot(d2, d2)
        r == VSub(segment_start1, segment_start2)
        f == Dot(d2, r)
        c == Dot(d1, r)
    IN  IF RLt(a, epsilon) /\ RLt(e, epsilon)
        THEN [distance_sq |-> norm_sq(VSub(segment_start2, segment_start1)),
              contact_point1 |-> segment_start1,
              contact_point2 |-> segment_start2,
              s |-> None, t |-> None, branch |-> "both_degenerate"]
        ELSE IF RLt(a, epsilon)
        THEN lsls_result(segment_start1, d1, segment_start2, d2,
                         Zero, Clamp01(RDiv(f, e)), "first_degenerate")
        ELSE IF RLe(e, epsilon)
        THEN lsls_result(segment_start1, d1, segment_start2, d2,
                         Clamp01(RDiv(RNeg(c), a)), Zero, "second_degenerate")
        ELSE LET st == lsls_general(d1, d2, r, a, e, c, f)
             IN  lsls_result(segment_start1, d1, segment_start2, d2,
                             st[1], st[2], "general")

(***************************************************************************)
(* pressure_field.py: the helpers of the contact-force pipeline.           *)
(***************************************************************************)
\* np.sign
Sign(x) == IF RLt(x, Zero) THEN -1 ELSE IF RGt(x, Zero) THEN 1 ELSE 0

\* np.min / np.max over the values of a sequence of numbers
SeqMin(q) == CHOOSE m \in {q[i] : i \in DOMAIN q} : \A i \in DOMAIN q : RLe(m, q[i])
SeqMax(q) == CHOOSE m \in {q[i] : i \in DOMAIN q} : \A i \in DOMAIN q : RGe(m, q[i])

RECURSIVE VSum(_)
VSum(q) == IF q = <<>> THEN VZero ELSE VAdd(Head(q), VSum(Tail(q)))

RECURSIVE RSum(_)
RSum(q) == IF q = <<>> THEN Zero ELSE RAdd(Head(q), RSum(Tail(q)))

\* np.mean(points, axis=0)
Mean(points) == VScale(RDiv(One, R(Len(points))), VSum(points))

\* np.linalg.norm(v) itself, for the vectors whose norm is rational (every
\* cross product of two vectors of a plane x = const is one)
ISqrt(n) == CHOOSE k \in 0..n : k * k = n
norm(v) == LET q == norm_sq(v) IN <<ISqrt(q[1]), ISqrt(q[2])>>

\* points_to_plane_signed, for one point and for a sequence of points
point_to_plane_signed(point, plane_point, plane_normal) ==
    Dot(VSub(point, plane_point), plane_normal)

points_to_plane_signed(points, plane_point, plane_normal) ==
    [i \in DOMAIN points |-> point_to_plane_signed(points[i], plane_point, plane_normal)]

\* intersecting_tetrahedra: one boolean per tetrahedron of the list
intersecting_tetrahedra(vertices, tetrahedra, contact_point, normal) ==
    LET d == points_to_plane_signed(vertices, contact_point, normal)
    IN  [k \in DOMAIN tetrahedra |->
            LET dk == [j \in 1..4 |-> d[tetrahedra[k][j]]]
            IN  Sign(SeqMin(dk)) # Sign(SeqMax(dk))]

\* distance.line_segment_to_plane: <<distance, t, intersection point>>.  For a
\* segment that crosses (or touches) the plane the third element is the point
\* of the segment on the plane, found by linear interpolation of the signed
\* distances d0, d1 of its two ends; otherwise it is the projection of the
\* nearer end.
segment_plane_parameter(d0, d1) ==
    IF (RLe(d0, Zero) /\ RGe(d1, Zero)) \/ (RGe(d0, Zero) /\ RLe(d1, Zero))
    THEN (IF d0 = d1 THEN Zero ELSE RDiv(d0, RSub(d0, d1)))
    ELSE (IF RLe(RAbs(d0), RAbs(d1)) THEN Zero ELSE One)

segment_plane_at(q, t, dq, plane_normal) ==
    <<RAbs(dq), t, VSub(q, VScale(dq, plane_normal))>>

segment_plane_point(segment_start, segment_end, plane_point, plane_normal, t) ==
    segment_plane_at(
        VAdd(segment_start, VScale(t, VSub(segment_end, segment_start))), t,
        point_to_plane_signed(
            VAdd(segment_start, VScale(t, VSub(segment_end, segment_start))),
            plane_point, plane_normal),
        plane_normal)

line_segment_to_plane(segment_start, segment_end, plane_point, plane_normal) ==
    segment_plane_point(
        segment_start, segment_end, plane_point, plane_normal,
        segment_plane_parameter(
            point_to_plane_signed(segment_start, plane_point, plane_normal),
            point_to_plane_signed(segment_end, plane_point, plane_normal)))

\* what a call that may raise gives: a value returned or an exception raised
AssertionError == "AssertionError"
Return(v) == [exc |-> None, value |-> v]
Raise(e) == [exc |-> e, value |-> None]

\* line 131: d = np.sign(points_to_plane_signed(...)), for the four vertices
VertexSigns(plane_point, plane_normal, tetrahedron_points) ==
    [i \in 1..4 |->
        Sign(point_to_plane_signed(tetrahedron_points[i], plane_point, plane_normal))]

\* lines 134-140: one point per pair (n, p), n in neg (outer loop), p in pos
\* (inner loop)
triangle_points_of(plane_point, plane_normal, tetrahedron_points, neg, pos) ==
    [k \in 1..(Len(neg) * Len(pos)) |->
        line_segment_to_plane(
            tetrahedron_points[neg[((k - 1) \div Len(pos)) + 1]],
            tetrahedron_points[pos[((k - 1) % Len(pos)) + 1]],
            plane_point, plane_normal)[3]]

\* lines 141-143
assert_triangle_points(triangle_points) ==
    IF Len(triangle_points) >= 3 THEN Return(triangle_points)
    ELSE Raise(AssertionError)

\* the classification with the vertices on the plane left out of pos
projection_of_signs_droponplane(plane_point, plane_normal, tetrahedron_points, d) ==
    assert_triangle_points(
        triangle_points_of(plane_point, plane_normal, tetrahedron_points,
            SelectSeq(<<1, 2, 3, 4>>, LAMBDA i : d[i] < 0),
            SelectSeq(<<1, 2, 3, 4>>, LAMBDA i : d[i] > 0)))

\* lines 132-143: neg = np.where(d < 0)[0], pos = np.where(d >= 0)[0], the
\* points, the assertion
projection_of_signs(plane_point, plane_normal, tetrahedron_points, d) ==
    assert_triangle_points(
        triangle_points_of(plane_point, plane_normal, tetrahedron_points,
            SelectSeq(<<1, 2, 3, 4>>, LAMBDA i : d[i] < 0),
            SelectSeq(<<1, 2, 3, 4>>, LAMBDA i : d[i] >= 0)))

\* contact_plane_projection: returns the polygon points or raises AssertionError
contact_plane_projection(plane_point, plane_normal, tetrahedron_points) ==
    projection_of_signs(plane_point, plane_normal, tetrahedron_points,
        VertexSigns(plane_point, plane_normal, tetrahedron_points))

\* the quadrilateral is split along the segment between points 0 and 1
polygon_area_sidesplit(points) ==
    IF Len(points) = 3
    THEN Return(RMul(Q(1, 2), norm(Cross(VSub(points[2], points[1]),
                                         VSub(points[3], points[1])))))
    ELSE IF Len(points) # 4 THEN Raise(AssertionError)
    ELSE Return(RMul(Q(1, 2),
              RAdd(norm(Cross(VSub(points[2], points[1]), VSub(points[3], points[1]))),
                   norm(Cross(VSub(points[2], points[1]), VSub(points[4], points[1]))))))

\* polygon_area: returns the area or raises AssertionError
polygon_area(points) ==
    IF Len(points) = 3
    THEN Return(RMul(Q(1, 2), norm(Cross(VSub(points[2], points[1]),
                                         VSub(points[3], points[1])))))
    ELSE IF Len(points) # 4 THEN Raise(AssertionError)
    ELSE Return(RMul(Q(1, 2),
              RAdd(norm(Cross(VSub(points[2], points[1]), VSub(points[3], points[1]))),
                   norm(Cross(VSub(points[2], points[4]), VSub(points[3], points[4]))))))

(***************************************************************************)
(* The collaborators of contact_forces.  Rigid transforms (pytransform3d)  *)
(* are records [R |-> rotation matrix (three rows), p |-> translation].    *)
(***************************************************************************)
MatVec(M, v) == <<Dot(M[1], v), Dot(M[2], v), Dot(M[3], v)>>
MatT(M) == [i \in 1..3 |-> [j \in 1..3 |-> M[j][i]]]
MatMul(A, B) == [i \in 1..3 |-> [j \in 1..3 |-> Dot(A[i], MatT(B)[j])]]

\* pt.invert_transform
invert_transform(A2B) ==
    [R |-> MatT(A2B.R), p |-> VNeg(MatVec(MatT(A2B.R), A2B.p))]
\* pt.concat(A2B, B2C): first A2B, then B2C
concat(A2B, B2C) ==
    [R |-> MatMul(B2C.R, A2B.R), p |-> VAdd(MatVec(B2C.R, A2B.p), B2C.p)]
\* pt.transform(A2B, pt.vectors_to_points(points))[:, :3]
transform(A2B, points) ==
    [i \in DOMAIN points |-> VAdd(MatVec(A2B.R, points[i]), A2B.p)]

\* mesh.tetrahedral_mesh_aabbs: per tetrahedron and axis, <<min, max>> over its
\* four vertices
tetrahedral_mesh_aabbs(vertices, tetrahedra) ==
    [k \in DOMAIN tetrahedra |->
        [ax \in 1..3 |->
            LET q == [j \in 1..4 |-> vertices[tetrahedra[k][j]][ax]]
            IN  <<SeqMin(q), SeqMax(q)>>]]

\* aabbtree's overlap test: closed intervals on the three axes
AabbOverlap(a, b) ==
    \A ax \in 1..3 : RLe(a[ax][1], b[ax][2]) /\ RLe(b[ax][1], a[ax][2])

\* tree2.overlap_values(aabb): the indices of the boxes of the tree that
\* overlap the box, here in ascending order
overlap_values(aabbs2, aabb) ==
    SelectSeq([j \in DOMAIN aabbs2 |-> j], LAMBDA j : AabbOverlap(aabbs2[j], aabb))

\* geometry.barycentric_coordinates_tetrahedron: the four weights of p, which
\* sum to 1 (Cramer's rule)
Det3(a, b, c) == Dot(a, Cross(b, c))
barycentric_coordinates_tetrahedron(p, tetra) ==
    LET e1 == VSub(tetra[2], tetra[1])
        e2 == VSub(tetra[3], tetra[1])
        e3 == VSub(tetra[4], tetra[1])
        w == VSub(p, tetra[1])
        D == Det3(e1, e2, e3)
        c2 == RDiv(Det3(w, e2, e3), D)
        c3 == RDiv(Det3(e1, w, e3), D)
        c4 == RDiv(Det3(e1, e2, w), D)
    IN  <<RSub(RSub(RSub(One, c2), c3), c4), c2, c3, c4>>

\* c.dot(potentials[tetrahedron])
Dot4(c, q) == RSum([j \in 1..4 |-> RMul(c[j], q[j])])

(***************************************************************************)
(* pressure_field.py: contact_forces, step by step.                        *)
(***************************************************************************)
\* vertices[tetrahedra[idx]] and potentials[tetrahedra[idx]]
TetraPoints(vertices, tetrahedron) == [j \in 1..4 |-> vertices[tetrahedron[j]]]
TetraPotentials(potentials, tetrahedron) == [j \in 1..4 |-> potentials[tetrahedron[j]]]

\* lines 76-78 (object 1) and 89-91 (object 2): centroid and pressure
ContributionAt(points, area, pm, tetra, potentials) ==
    Return([area |-> area, p |-> pm, poly |-> points,
            pressure |-> Dot4(barycentric_coordinates_tetrahedron(pm, tetra), potentials)])

\* lines 75 and 88: area = polygon_area(poly)
ContributionOfArea(points, area, tetra, potentials) ==
    IF area.exc # None THEN Raise(area.exc)
    ELSE ContributionAt(points, area.value, Mean(points), tetra, potentials)

ContributionOfPoly(poly, tetra, potentials) ==
    IF poly.exc # None THEN Raise(poly.exc)
    ELSE ContributionOfArea(poly.value, polygon_area(poly.value), tetra, potentials)

\* lines 74-78 (object 1) and 87-91 (object 2): the contribution of one
\* tetrahedron: its polygon, area, centroid and pressure; raises what the
\* projector or polygon_area raises
Contribution(contact_point, normal, tetra, potentials) ==
    ContributionOfPoly(contact_plane_projection(contact_point, normal, tetra),
                       tetra, potentials)

\* forces[idx] = entry
DictSet(forces, idx, entry) ==
    [k \in (DOMAIN forces) \cup {idx} |-> IF k = idx THEN entry ELSE forces[k]]

\* sum([forces[f][0] for f in forces])
RECURSIVE SumOver(_, _)
SumOver(forces, keys) ==
    IF keys = {} THEN Zero
    ELSE LET k == CHOOSE x \in keys : TRUE
         IN  RAdd(forces[k].force, SumOver(forces, keys \ {k}))
SumForces(forces) == SumOver(forces, DOMAIN forces)

\* lines 46-49: the candidate pairs <<i, j>>, i ascending
PairsOf(i, new_indices2) == [k \in 1..Len(new_indices2) |-> <<i, new_indices2[k]>>]
RECURSIVE BroadPairs(_, _, _)
BroadPairs(i, aabbs1, aabbs2) ==
    IF i > Len(aabbs1) THEN <<>>
    ELSE PairsOf(i, overlap_values(aabbs2, aabbs1[i]))
         \o BroadPairs(i + 1, aabbs1, aabbs2)

\* a[keep] for a boolean mask
RECURSIVE Mask(_, _)
Mask(a, keep) ==
    IF a = <<>> THEN <<>>
    ELSE (IF Head(keep) THEN <<Head(a)>> ELSE <<>>) \o Mask(Tail(a), Tail(keep))

(***************************************************************************)
(* The inputs of the distance kernel: points of a small grid, tolerances.  *)
(***************************************************************************)
UnitCoords == {0, 1}
GridOf(maxx) == {<<R(x), R(y), R(z)>> : x \in 0..maxx, y \in UnitCoords, z \in UnitCoords}
PointGrid == GridOf(MaxPointCoord)
SegGrid == GridOf(MaxSegCoord)
EpsSet == {Q(k, 2) : k \in 1..MaxEpsHalves}

(***************************************************************************)
(* SpecPLS: one call of point_to_line_segment on any grid input.           *)
(***************************************************************************)
InitPLS ==
    /\ pc = "call"
    /\ args \in [point : PointGrid, segment_start : PointGrid, segment_end : PointGrid]
    /\ loc = None
    /\ ret = None

CallPLS ==
    /\ pc = "call"
    /\ ret' = point_to_line_segment(args.point, args.segment_start, args.segment_end)
    /\ pc' = "done"
    /\ UNCHANGED <<args, loc>>

NextPLS == CallPLS

SpecPLS == InitPLS /\ [][NextPLS]_vars

(***************************************************************************)
(* SpecLSLS: line_segment_to_line_segment(A, B), then the same call with   *)
(* the two segments swapped, (B, A); ret holds the first result and loc    *)
(* the second.                                                             *)
(***************************************************************************)
InitLSLS ==
    /\ pc = "call"
    /\ args \in [segment_start1 : SegGrid, segment_end1 : SegGrid,
                 segment_start2 : SegGrid, segment_end2 : SegGrid,
                 epsilon : EpsSet]
    /\ loc = None
    /\ ret = None

CallLSLS ==
    /\ pc = "call"
    /\ ret' = line_segment_to_line_segment(
                  args.segment_start1, args.segment_end1,
                  args.segment_start2, args.segment_end2, args.epsilon)
    /\ pc' = "swapped_call"
    /\ UNCHANGED <<args, loc>>

CallSwappedLSLS ==
    /\ pc = "swapped_call"
    /\ loc' = line_segment_to_line_segment(
                  args.segment_start2, args.segment_end2,
                  args.segment_start1, args.segment_end1, args.epsilon)
    /\ pc' = "done"
    /\ UNCHANGED <<args, ret>>

NextLSLS == CallLSLS \/ CallSwappedLSLS

SpecLSLS == InitLSLS /\ [][NextLSLS]_vars

(***************************************************************************)
(* SpecTetra: the plane-straddle test, the projector and the area of one   *)
(* tetrahedron against the plane x = 0, for every placement of its four    *)
(* vertices at -MaxDist..MaxDist along x and both orientations of the      *)
(* normal.                                                                 *)
(***************************************************************************)
\* the y and z coordinates of the four vertices
TetraYZ == <<<<0, 0>>, <<3, 0>>, <<0, 3>>, <<1, 1>>>>
TetraVertices(xs) == [i \in 1..4 |-> <<R(xs[i]), R(TetraYZ[i][1]), R(TetraYZ[i][2])>>]

InitTetra ==
    /\ pc = "straddle"
    /\ \E xs \in [1..4 -> (-MaxDist)..MaxDist], n \in {UnitX, VNeg(UnitX)} :
          args = [vertices |-> TetraVertices(xs),
                  tetrahedra |-> << <<1, 2, 3, 4>> >>,
                  contact_point |-> VZero,
                  normal |-> n]
    /\ loc = [keep |-> None, poly |-> None]
    /\ ret = None

CallStraddle ==
    /\ pc = "straddle"
    /\ loc' = [loc EXCEPT !.keep = intersecting_tetrahedra(
                   args.vertices, args.tetrahedra, args.contact_point, args.normal)]
    /\ pc' = "project"
    /\ UNCHANGED <<args, ret>>

CallProjection ==
    /\ pc = "project"
    /\ loc' = [loc EXCEPT !.poly = contact_plane_projection(
                   args.contact_point, args.normal,
                   [j \in 1..4 |-> args.vertices[args.tetrahedra[1][j]]])]
    /\ pc' = "area"
    /\ UNCHANGED <<args, ret>>

\* the assertion of the projector propagates: polygon_area is only called with
\* what the projector returned
CallArea ==
    /\ pc = "area"
    /\ ret' = IF loc.poly.exc # None THEN Raise(loc.poly.exc)
              ELSE polygon_area(loc.poly.value)
    /\ pc' = "done"
    /\ UNCHANGED <<args, loc>>

NextTetra == CallStraddle \/ CallProjection \/ CallArea

SpecTetra == InitTetra /\ [][NextTetra]_vars

(***************************************************************************)
(* SpecCF: one call of contact_forces.  The meshes have five vertices and  *)
(* two tetrahedra that share a face; the answers of the penetration query  *)
(* (mpr_penetration) and of the exact intersection test (gjk_intersection) *)
(* are chosen freely.  pc names the stage the call is in; loc.trace lists  *)
(* the stages passed, loc.calls counts the calls made (confirmed: the      *)
(* pairs for which gjk_intersection returned true), loc.computed1 how      *)
(* often the contribution of each tetrahedron of object 1 was computed,    *)
(* loc.confirmed_pairs the pairs <<idx1, idx2>> for which gjk_intersection *)
(* returned true.                                                          *)
(***************************************************************************)
Identity3 == <<UnitX, <<Zero, One, Zero>>, <<Zero, Zero, One>>>>
\* a quarter turn about z
TurnZ == <<<<Zero, R(-1), Zero>>, <<One, Zero, Zero>>, <<Zero, Zero, One>>>>
Transforms == {[R |-> Identity3, p |-> VZero],
               [R |-> TurnZ, p |-> UnitX]}

MeshTetrahedra == << <<1, 2, 3, 4>>, <<2, 3, 4, 5>> >>
MeshYZ == <<<<0, 0>>, <<1, 0>>, <<0, 1>>, <<1, 1>>, <<2, 1>>>>
\* the x coordinates of the five vertices; no tetrahedron is flat
MeshXs == {<<-1, 1, 1, 1, 2>>, <<-1, 1, 1, -1, 1>>, <<0, 1, 1, 1, -1>>, <<1, 2, 2, 2, 3>>}
MeshVertices(xs) == [i \in 1..5 |-> <<R(xs[i]), R(MeshYZ[i][1]), R(MeshYZ[i][2])>>]
MeshFamily == {MeshVertices(xs) : xs \in MeshXs}
PotentialSet == {[i \in 1..5 |-> R(q)] : q \in 1..MaxPotential}
ContactPoints == {<<R(c), Zero, Zero>> : c \in 0..MaxPlaneOffset}

InitCF ==
    /\ pc = "START"
    /\ args \in [mesh12origin : Transforms, vertices1_in_mesh1 : MeshFamily,
                 tetrahedra1 : {MeshTetrahedra}, potentials1 : PotentialSet,
                 mesh22origin : Transforms, vertices2_in_mesh2 : MeshFamily,
                 tetrahedra2 : {MeshTetrahedra}, potentials2 : PotentialSet,
                 return_details : BOOLEAN]
    /\ loc = [trace |-> <<"START">>,
              vertices1_in_mesh2 |-> None,
              intersection |-> None, normal |-> None, contact_point |-> None,
              broad_overlapping_indices1 |-> <<>>,
              broad_overlapping_indices2 |-> <<>>,
              i |-> 0,
              forces1 |-> <<>>, forces2 |-> <<>>,
              keys1 |-> <<>>, keys2 |-> <<>>,
              last1 |-> -1, memo1 |-> None,
              calls |-> [aabbs |-> 0, tree_queries |-> 0, straddle |-> 0,
                         gjk |-> 0, confirmed |-> 0, projection |-> 0],
              computed1 |-> [k \in DOMAIN args.tetrahedra1 |-> 0],
              confirmed_pairs |-> <<>>]
    /\ ret = None

\* lines 18-20
TransformVertices ==
    /\ pc = "START"
    /\ loc' = [loc EXCEPT
                 !.vertices1_in_mesh2 =
                     transform(concat(args.mesh12origin,
                                      invert_transform(args.mesh22origin)),
                               args.vertices1_in_mesh1),
                 !.trace = Append(@, "GLOBAL_INTERSECTION_CHECK")]
    /\ pc' = "GLOBAL_INTERSECTION_CHECK"
    /\ UNCHANGED <<args, ret>>

\* the global check without the early return
GlobalIntersectionCheck_noreturn ==
    /\ pc = "GLOBAL_INTERSECTION_CHECK"
    /\ \E intersection \in BOOLEAN, contact_point \in ContactPoints :
          /\ loc' = [loc EXCEPT !.intersection = intersection,
                                !.normal = UnitX,
                                !.contact_point = contact_point,
                                !.trace = Append(@, "BROAD_PHASE")]
          /\ pc' = "BROAD_PHASE"
          /\ ret' = ret
    /\ UNCHANGED args

\* lines 23-30: intersection, depth, normal, contact_point = mpr_penetration(c1, c2)
GlobalIntersectionCheck ==
    /\ pc = "GLOBAL_INTERSECTION_CHECK"
    /\ \E intersection \in BOOLEAN, contact_point \in ContactPoints :
          LET stage == IF intersection THEN "BROAD_PHASE" ELSE "NO_CONTACT"
          IN  /\ loc' = [loc EXCEPT !.intersection = intersection,
                                    !.normal = UnitX,
                                    !.contact_point = contact_point,
                                    !.trace = Append(@, stage)]
              /\ pc' = stage
              /\ ret' = IF intersection THEN ret
                        ELSE IF args.return_details
                             THEN <<intersection, None, None, None>>
                             ELSE <<intersection, None, None>>
    /\ UNCHANGED args

\* lines 41-53, given the boxes of the two meshes
broad_phase(l, aabbs1, pairs) ==
    [l EXCEPT
       !.broad_overlapping_indices1 = [k \in DOMAIN pairs |-> pairs[k][1]],
       !.broad_overlapping_indices2 = [k \in DOMAIN pairs |-> pairs[k][2]],
       !.calls.aabbs = @ + 2,
       !.calls.tree_queries = @ + Len(aabbs1),
       !.trace = Append(@, "NARROW_PHASE")]

broad_phase_of(l, aabbs1, aabbs2) ==
    broad_phase(l, aabbs1, BroadPairs(1, aabbs1, aabbs2))

\* lines 39-53
BroadPhase ==
    /\ pc = "BROAD_PHASE"
    /\ loc' = broad_phase_of(loc,
           tetrahedral_mesh_aabbs(loc.vertices1_in_mesh2, args.tetrahedra1),
           tetrahedral_mesh_aabbs(args.vertices2_in_mesh2, args.tetrahedra2))
    /\ pc' = "NARROW_PHASE"
    /\ UNCHANGED <<args, ret>>

\* lines 58-66, given the masks of the two straddle tests
narrow_phase(l, keep1, keep2) ==
    [l EXCEPT
       !.broad_overlapping_indices1 =
           Mask(@, [k \in DOMAIN keep1 |-> keep1[k] /\ keep2[k]]),
       !.broad_overlapping_indices2 =
           Mask(@, [k \in DOMAIN keep1 |-> keep1[k] /\ keep2[k]]),
       !.forces1 = <<>>, !.forces2 = <<>>,
       !.last1 = -1,
       !.i = 1,
       !.calls.straddle = @ + 2,
       !.trace = Append(@, "PROJECT_AND_INTEGRATE")]

\* lines 52-66
NarrowPhase ==
    /\ pc = "NARROW_PHASE"
    /\ loc' = narrow_phase(loc,
           intersecting_tetrahedra(
               loc.vertices1_in_mesh2,
               [k \in DOMAIN loc.broad_overlapping_indices1 |->
                   args.tetrahedra1[loc.broad_overlapping_indices1[k]]],
               loc.contact_point, loc.normal),
           intersecting_tetrahedra(
               args.vertices2_in_mesh2,
               [k \in DOMAIN loc.broad_overlapping_indices2 |->
                   args.tetrahedra2[loc.broad_overlapping_indices2[k]]],
               loc.contact_point, loc.normal))
    /\ pc' = "PROJECT_AND_INTEGRATE"
    /\ UNCHANGED <<args, ret>>

\* how one iteration of the loop ends: with an exception, or at the next one
Raised(exc, l) ==
    [pc |-> "RAISED", loc |-> [l EXCEPT !.trace = Append(@, "RAISED")], ret |-> exc]
Continue(l) ==
    [pc |-> "PROJECT_AND_INTEGRATE", loc |-> l, ret |-> None]

\* only the entry of object 1 is stored
Store_object1only(l, idx1, idx2, v1, v2) ==
    [l EXCEPT
       !.calls.projection = @ + 1,
       !.forces1 = DictSet(@, idx1, [force |-> RMul(v1.area, v1.pressure),
                                     p |-> v1.p, poly |-> v1.poly]),
       !.keys1 = IF idx1 \in DOMAIN l.forces1 THEN @ ELSE Append(@, idx1)]

\* lines 93-94: forces1[idx1] = ..., forces2[idx2] = ...
Store(l, idx1, idx2, v1, v2) ==
    [l EXCEPT
       !.calls.projection = @ + 1,
       !.forces1 = DictSet(@, idx1, [force |-> RMul(v1.area, v1.pressure),
                                     p |-> v1.p, poly |-> v1.poly]),
       !.forces2 = DictSet(@, idx2, [force |-> RMul(v2.area, v2.pressure),
                                     p |-> v2.p, poly |-> v2.poly]),
       !.keys1 = IF idx1 \in DOMAIN l.forces1 THEN @ ELSE Append(@, idx1),
       !.keys2 = IF idx2 \in DOMAIN l.forces2 THEN @ ELSE Append(@, idx2)]

\* lines 87-94: after gjk_intersection(t1, t2) returned true; c2 is what the
\* contribution of object 2 gave
LoopBodyHit(l, idx1, idx2, v1, c2) ==
    IF c2.exc # None
    THEN Raised(c2.exc, [l EXCEPT !.calls.projection = @ + 1])
    ELSE Continue(Store(l, idx1, idx2, v1, c2.value))

\* lines 82-94: c1 is what the contribution of object 1 gave, hit the answer of
\* gjk_intersection(t1, t2)
LoopBodyGjk(l, a, hit, idx1, idx2, c1) ==
    IF c1.exc # None THEN Raised(c1.exc, l)
    ELSE IF ~hit
    THEN Continue([l EXCEPT !.memo1 = c1.value, !.calls.gjk = @ + 1, !.i = @ + 1])
    ELSE LoopBodyHit(
             [l EXCEPT !.memo1 = c1.value, !.calls.gjk = @ + 1,
                       !.calls.confirmed = @ + 1,
                       !.confirmed_pairs = Append(@, <<idx1, idx2>>),
                       !.i = @ + 1],
             idx1, idx2, c1.value,
             Contribution(l.contact_point, l.normal,
                          TetraPoints(a.vertices2_in_mesh2, a.tetrahedra2[idx2]),
                          TetraPotentials(a.potentials2, a.tetrahedra2[idx2])))

\* lines 71-78: if idx1 != last1, the contribution of object 1 is computed;
\* last1 is -1 and is assigned nowhere in the loop
LoopBodyAt(l, a, hit, idx1, idx2) ==
    IF idx1 # l.last1
    THEN LoopBodyGjk(
             [l EXCEPT !.calls.projection = @ + 1, !.computed1[idx1] = @ + 1],
             a, hit, idx1, idx2,
             Contribution(l.contact_point, l.normal,
                          TetraPoints(l.vertices1_in_mesh2, a.tetrahedra1[idx1]),
                          TetraPotentials(a.potentials1, a.tetrahedra1[idx1])))
    ELSE LoopBodyGjk(l, a, hit, idx1, idx2, Return(l.memo1))

\* lines 68-94: the body of the loop for the pair at position l.i
LoopBody(l, a, hit) ==
    LoopBodyAt(l, a, hit, l.broad_overlapping_indices1[l.i],
                          l.broad_overlapping_indices2[l.i])

\* lines 67-94: one iteration of the loop over the kept candidate pairs
LoopIteration ==
    /\ pc = "PROJECT_AND_INTEGRATE"
    /\ loc.i <= Len(loc.broad_overlapping_indices1)
    /\ \E hit \in BOOLEAN :
          \E r \in {LoopBody(loc, args, hit)} :
              /\ pc' = r.pc
              /\ loc' = r.loc
              /\ ret' = IF r.pc = "RAISED" THEN r.ret ELSE ret
    /\ UNCHANGED args

\* line 67: the loop is over
LoopExit ==
    /\ pc = "PROJECT_AND_INTEGRATE"
    /\ loc.i > Len(loc.broad_overlapping_indices1)
    /\ pc' = "ASSEMBLE_WRENCH"
    /\ loc' = [loc EXCEPT !.trace = Append(@, "ASSEMBLE_WRENCH")]
    /\ UNCHANGED <<args, ret>>

\* np.hstack((force, np.zeros(3)))
Wrench(force) == force \o VZero

\* lines 106-113
Details(l) ==
    [object1_pressures |-> [k \in DOMAIN l.keys1 |-> l.forces1[l.keys1[k]].force],
     object2_pressures |-> [k \in DOMAIN l.keys2 |-> l.forces2[l.keys2[k]].force],
     object1_coms |-> [k \in DOMAIN l.keys1 |-> l.forces1[l.keys1[k]].p],
     object2_coms |-> [k \in DOMAIN l.keys2 |-> l.forces2[l.keys2[k]].p],
     object1_polys |-> [k \in DOMAIN l.keys1 |-> l.forces1[l.keys1[k]].poly],
     object2_polys |-> [k \in DOMAIN l.keys2 |-> l.forces2[l.keys2[k]].poly]]

\* lines 99-116, given normal_in_world
assemble(l, a, normal_in_world) ==
    IF a.return_details
    THEN <<l.intersection,
           Wrench(VScale(SumForces(l.forces1), normal_in_world)),
           Wrench(VScale(SumForces(l.forces2), VNeg(normal_in_world))),
           Details(l)>>
    ELSE <<l.intersection,
           Wrench(VScale(SumForces(l.forces1), normal_in_world)),
           Wrench(VScale(SumForces(l.forces2), VNeg(normal_in_world)))>>

\* lines 99-116
AssembleWrench ==
    /\ pc = "ASSEMBLE_WRENCH"
    /\ ret' = assemble(loc, args, MatVec(args.mesh22origin.R, loc.normal))
    /\ pc' = "DONE"
    /\ loc' = [loc EXCEPT !.trace = Append(@, "DONE")]
    /\ UNCHANGED args

NextCF ==
    \/ TransformVertices
    \/ GlobalIntersectionCheck
    \/ BroadPhase
    \/ NarrowPhase
    \/ LoopIteration
    \/ LoopExit
    \/ AssembleWrench

SpecCF == InitCF /\ [][NextCF]_vars

(***************************************************************************)
(* Claims about point_to_line_segment (SpecPLS).                           *)
(***************************************************************************)
\* p lies on the segment from a to b
OnSegment(p, a, b) ==
    LET d == VSub(b, a)
        w == VSub(p, a)
    IN  /\ ~VIsNaN(p)
        /\ Cross(w, d) = VZero
        /\ RLe(Zero, Dot(w, d))
        /\ RLe(Dot(w, d), Dot(d, d))
        /\ (d = VZero => p = a)

\* C7: a call with a degenerate segment (segment_start = segment_end) does not
\* divide by zero: it returns the distance from the point to segment_start and
\* segment_start as the closest point.
C7_DegenerateSegmentGuarded ==
    (pc = "done" /\ args.segment_start = args.segment_end) =>
        /\ ret.distance_sq = norm_sq(VSub(args.point, args.segment_start))
        /\ ret.contact_point = args.segment_start

\* C8: for a non-degenerate segment the closest point returned is the segment
\* point at the projection parameter clamped to [0,1]: segment_start when the
\* parameter is below 0, segment_end when it is above 1; a point on the segment
\* gets distance 0 and itself; the distance returned is the distance between
\* the point and the closest point returned.
C8_ClampedProjection ==
    (pc = "done" /\ args.segment_start # args.segment_end) =>
        LET d == VSub(args.segment_end, args.segment_start)
            num == Dot(VSub(args.point, args.segment_start), d)
            den == Dot(d, d)
            tau == IF RLt(num, Zero) THEN Zero
                   ELSE IF RGt(num, den) THEN One ELSE RDiv(num, den)
        IN  /\ ret.contact_point = VAdd(args.segment_start, VScale(tau, d))
            /\ (RLt(num, Zero) => ret.contact_point = args.segment_start)
            /\ (RGt(num, den) => ret.contact_point = args.segment_end)
            /\ (OnSegment(args.point, args.segment_start, args.segment_end) =>
                    /\ ret.distance_sq = Zero
                    /\ ret.contact_point = args.point)
            /\ ret.distance_sq = norm_sq(VSub(args.point, ret.contact_point))

\* a call whose unclamped parameter is above 1 has returned
C8_Witness ==
    /\ pc = "done"
    /\ args.segment_start # args.segment_end
    /\ LET d == VSub(args.segment_end, args.segment_start)
       IN  RGt(Dot(VSub(args.point, args.segment_start), d), Dot(d, d))
    /\ ret.contact_point = args.segment_end
    /\ RGt(ret.distance_sq, Zero)

(***************************************************************************)
(* Claims about line_segment_to_line_segment (SpecLSLS).                   *)
(***************************************************************************)
\* C9: line_segment_to_line_segment(A, B) and line_segment_to_line_segment(B, A)
\* return the same distance, for every pair of segments and every tolerance.
C9_SymmetricDistance ==
    pc = "done" => ret.distance_sq = loc.distance_sq

\* C10: on each of the four branches the parameters s and t are within [0,1],
\* the first contact point lies on segment 1 and the second on segment 2, and
\* nothing is divided by zero (no result is nan).
C10_ParametersInUnitInterval ==
    pc = "done" =>
        /\ ret.branch \in {"both_degenerate", "first_degenerate",
                           "second_degenerate", "general"}
        /\ ret.branch # "both_degenerate" =>
               /\ RLe(Zero, ret.s) /\ RLe(ret.s, One)
               /\ RLe(Zero, ret.t) /\ RLe(ret.t, One)
        /\ ret.branch = "both_degenerate" =>
               /\ ret.contact_point1 = args.segment_start1
               /\ ret.contact_point2 = args.segment_start2
        /\ OnSegment(ret.contact_point1, args.segment_start1, args.segment_end1)
        /\ OnSegment(ret.contact_point2, args.segment_start2, args.segment_end2)
        /\ ~IsNaN(ret.distance_sq)

\* a general-branch call in which the t computed from the clamped s was above
\* 1, so that t was re-clamped to 1 and s recomputed, to a value strictly
\* inside (0, 1)
C10_Witness ==
    /\ pc = "done"
    /\ ret.branch = "general"
    /\ ret.t = One
    /\ RLt(Zero, ret.s) /\ RLt(ret.s, One)
    /\ LET d1 == VSub(args.segment_end1, args.segment_start1)
           d2 == VSub(args.segment_end2, args.segment_start2)
           r == VSub(args.segment_start1, args.segment_start2)
       IN  RGt(lsls_general_noreclamp(d1, d2, r, Dot(d1, d1), Dot(d2, d2),
                                      Dot(d1, r), Dot(d2, r))[2], One)

(***************************************************************************)
(* Claims about the plane-straddle test and the projector (SpecTetra).     *)
(***************************************************************************)
\* the signed distances of the four vertices of the tetrahedron of args
TetraDist == [j \in 1..4 |->
                 Dot(VSub(args.vertices[args.tetrahedra[1][j]], args.contact_point),
                     args.normal)]
NumNeg == Cardinality({j \in 1..4 : RLt(TetraDist[j], Zero)})
NumNonNeg == Cardinality({j \in 1..4 : RGe(TetraDist[j], Zero)})

\* C5: intersecting_tetrahedra retains a tetrahedron if and only if its four
\* signed distances contain a strictly negative and a non-negative value; a
\* tetrahedron whose smallest distance is 0 and whose others are positive is
\* not retained.
C5_RetainedIffStraddles ==
    pc # "straddle" => (loc.keep[1] <=> (NumNeg >= 1 /\ NumNonNeg >= 1))

\* C6: contact_plane_projection returns one point per (negative, non-negative)
\* vertex pair, 3 for a one-against-three split and 4 for a two-against-two
\* split; it aborts when either set is empty; polygon_area only ever receives
\* 3 or 4 points from it.
C6_ProjectionPointCount ==
    pc \in {"area", "done"} =>
        /\ (loc.poly.exc = AssertionError) <=> (NumNeg = 0 \/ NumNonNeg = 0)
        /\ loc.poly.exc = None =>
              /\ Len(loc.poly.value) = NumNeg * NumNonNeg
              /\ Len(loc.poly.value) \in {3, 4}
              /\ (NumNeg = 2 <=> Len(loc.poly.value) = 4)
              /\ (NumNeg \in {1, 3} <=> Len(loc.poly.value) = 3)
        /\ (pc = "done" /\ loc.poly.exc = None) => ret.exc = None

\* a two-against-two split with a vertex on the plane has been projected to 4
\* points and its area taken
C6_Witness ==
    /\ pc = "done"
    /\ NumNeg = 2
    /\ \E j \in 1..4 : TetraDist[j] = Zero
    /\ loc.poly.exc = None
    /\ Len(loc.poly.value) = 4
    /\ ret.exc = None

(***************************************************************************)
(* Claims about contact_forces (SpecCF).                                   *)
(***************************************************************************)
\* the global penetration query has answered
QueryAnswered == Len(loc.trace) >= 3
ZeroWrench == VZero \o VZero

\* C1: whenever contact_forces reports an intersection, the force part (the
\* first 3 components) of the wrench returned for body 1 is the exact negation
\* of the force part of the wrench returned for body 2.
C1_EqualOppositeForces ==
    (pc = "DONE" /\ ret[1] = TRUE) =>
        \A j \in 1..3 : ret[2][j] = RNeg(ret[3][j])

\* C2: when the global penetration query reports no intersection,
\* contact_forces returns (false, null, null), with a fourth null when details
\* are requested, and the run is START -> GLOBAL_INTERSECTION_CHECK ->
\* NO_CONTACT: no AABB is built, no tree is queried, no straddle test, no exact
\* intersection test and no projection is executed.
C2_NoContactReturnsImmediately ==
    (QueryAnswered /\ ~loc.intersection) =>
        /\ pc = "NO_CONTACT"
        /\ loc.trace = <<"START", "GLOBAL_INTERSECTION_CHECK", "NO_CONTACT">>
        /\ ret = IF args.return_details THEN <<FALSE, None, None, None>>
                 ELSE <<FALSE, None, None>>
        /\ loc.calls = [aabbs |-> 0, tree_queries |-> 0, straddle |-> 0,
                        gjk |-> 0, confirmed |-> 0, projection |-> 0]
        /\ loc.forces1 = <<>> /\ loc.forces2 = <<>>

\* a call with details requested has returned at NO_CONTACT
C2_Witness ==
    /\ pc = "NO_CONTACT"
    /\ args.return_details
    /\ ~loc.intersection
    /\ ret = <<FALSE, None, None, None>>

\* C3: when the global penetration query reports an intersection but no
\* tetrahedron pair ends up confirmed, contact_forces does not raise: it
\* completes and returns intersects = true with both wrenches all zero, and
\* empty detail lists when details are requested.
C3_NoConfirmedPairNeverRaises ==
    (QueryAnswered /\ loc.intersection /\ loc.calls.confirmed = 0) =>
        /\ pc # "RAISED"
        /\ pc = "DONE" =>
              /\ ret[1] = TRUE /\ ret[2] = ZeroWrench /\ ret[3] = ZeroWrench
              /\ args.return_details =>
                    \A name \in DOMAIN ret[4] : ret[4][name] = <<>>

\* C4: within one call the contribution of a tetrahedron of object 1 is
\* computed at most once per distinct tetrahedron index, however many pairs of
\* the iterated list share that index.
C4_Object1ContributionOncePerIndex ==
    QueryAnswered => \A k \in DOMAIN loc.computed1 : loc.computed1[k] <= 1

(***************************************************************************)
(* distance.py: point_to_line and line_to_line.  math.sqrt(abs(x)) is      *)
(* carried as its square, abs(x).                                          *)
(***************************************************************************)
\* the tolerances handed to line_to_line and line_to_line_segment are 1/2^k for
\* k in 0..MaxEpsExp
MaxEpsExp == 4
\* x coordinates of the points handed to line_to_line, line_to_line_segment and
\* point_to_plane: 0..MaxLineCoord
MaxLineCoord == 1

\* lines 31-37
_point_to_line(point, line_point, line_direction) ==
    LET diff == VSub(point, line_point)
        t == Dot(line_direction, diff)
        direction_fraction == VScale(t, line_direction)
    IN  [distance_sq |-> norm_sq(VSub(diff, direction_fraction)),
         point_on_line |-> VAdd(line_point, direction_fraction),
         t |-> t]

\* line 28: the first two elements
point_to_line(point, line_point, line_direction) ==
    [distance_sq |-> _point_to_line(point, line_point, line_direction).distance_sq,
     contact_point_line |-> _point_to_line(point, line_point, line_direction).point_on_line]

\* lines 123-129: the 2x2 system is solved
line_to_line_solved(line_point1, line_direction1, line_point2, line_direction2, a12, b1, b2, c, det) ==
    LET t1 == RDiv(RSub(RMul(a12, b2), b1), det)
        t2 == RDiv(RSub(RMul(a12, b1), b2), det)
    IN  [distance_sq |->
             RAbs(RAdd(RAdd(
                 RMul(t1, RAdd(RAdd(t1, RMul(a12, t2)), RMul(R(2), b1))),
                 RMul(t2, RAdd(RAdd(RMul(a12, t1), t2), RMul(R(2), b2)))), c)),
         contact_point1 |-> VAdd(line_point1, VScale(t1, line_direction1)),
         contact_point2 |-> VAdd(line_point2, VScale(t2, line_direction2)),
         t1 |-> t1, t2 |-> t2, branch |-> "solved"]

\* lines 131-134: parallel lines
line_to_line_parallel(line_point1, line_direction1, line_point2, b1, c) ==
    [distance_sq |-> RAbs(RAdd(RMul(b1, RNeg(b1)), c)),
     contact_point1 |-> VAdd(line_point1, VScale(RNeg(b1), line_direction1)),
     contact_point2 |-> line_point2,
     t1 |-> RNeg(b1), t2 |-> Zero, branch |-> "parallel"]

\* lines 114-138: the 5-tuple returned, and the branch taken
_line_to_line(line_point1, line_direction1, line_point2, line_direction2, epsilon) ==
    LET diff == VSub(line_point1, line_point2)
        a12 == RNeg(Dot(line_direction1, line_direction2))
        b1 == Dot(line_direction1, diff)
        c == Dot(diff, diff)
        det == RSub(One, RMul(a12, a12))
    IN  IF RGe(RAbs(det), epsilon)
        THEN line_to_line_solved(line_point1, line_direction1, line_point2,
                                 line_direction2, a12, b1,
                                 RNeg(Dot(line_direction2, diff)), c, det)
        ELSE line_to_line_parallel(line_point1, line_direction1, line_point2, b1, c)

\* lines 110-111: the first three elements (the branch is kept beside them)
line_to_line(line_point1, line_direction1, line_point2, line_direction2, epsilon) ==
    [f \in {"distance_sq", "contact_point1", "contact_point2", "branch"} |->
        _line_to_line(line_point1, line_direction1, line_point2, line_direction2, epsilon)[f]]

(***************************************************************************)
(* SpecLTL: one call of line_to_line, then the call of point_to_line the   *)
(* distance of parallel lines is compared with.                            *)
(***************************************************************************)
\* directions of unit length
UnitDirections ==
    {UnitX, VNeg(UnitX), <<Zero, One, Zero>>,
     <<Q(3, 5), Q(4, 5), Zero>>, <<Q(4, 5), Q(3, 5), Zero>>,
     <<Q(-4, 5), Q(-3, 5), Zero>>}
LineGrid == GridOf(MaxLineCoord)
LineEpsSet == {Q(1, 2 ^ k) : k \in 0..MaxEpsExp}

InitLTL ==
    /\ pc = "line_to_line"
    /\ args \in [line_point1 : LineGrid, line_direction1 : UnitDirections,
                 line_point2 : LineGrid, line_direction2 : UnitDirections,
                 epsilon : LineEpsSet]
    /\ loc = None
    /\ ret = None

CallLTL ==
    /\ pc = "line_to_line"
    /\ ret' = line_to_line(args.line_point1, args.line_direction1,
                           args.line_point2, args.line_direction2, args.epsilon)
    /\ pc' = "point_to_line"
    /\ UNCHANGED <<args, loc>>

CallPTL ==
    /\ pc = "point_to_line"
    /\ loc' = point_to_line(args.line_point1, args.line_point2, args.line_direction2)
    /\ pc' = "done"
    /\ UNCHANGED <<args, ret>>

NextLTL == CallLTL \/ CallPTL

SpecLTL == InitLTL /\ [][NextLTL]_vars

(***************************************************************************)
(* Claims about line_to_line (SpecLTL).                                    *)
(***************************************************************************)
\* C11: whenever |d1.d2| > 1 - epsilon, line_to_line takes the parallel
\* fallback branch: it returns line_point2 itself as the closest point on
\* line 2.
C11_NearParallelTakesFallback ==
    (pc # "line_to_line"
        /\ RGt(RAbs(Dot(args.line_direction1, args.line_direction2)),
               RSub(One, args.epsilon))) =>
        /\ ret.branch = "parallel"
        /\ ret.contact_point2 = args.line_point2

\* C12: whenever line_to_line takes the parallel fallback branch, the distance
\* it returns equals the distance of point_to_line(line_point1, line_point2,
\* line_direction2) and the distance between the two contact points it returns.
C12_FallbackIsPointToLineDistance ==
    (pc = "done" /\ ret.branch = "parallel") =>
        /\ ret.distance_sq = loc.distance_sq
        /\ ret.distance_sq = norm_sq(VSub(ret.contact_point1, ret.contact_point2))

(***************************************************************************)
(* distance.py: line_to_line_segment.  The record holds the elements of    *)
(* the tuple returned by position: contact_point1 is the second element,   *)
(* contact_point2 the third; t and s are None where the code returns none. *)
(***************************************************************************)
\* lines 221-224
llls_result(line_point, line_direction, segment_start, d, t, s, branch) ==
    [distance_sq |->
         norm_sq(VSub(VAdd(segment_start, VScale(s, d)),
                      VAdd(line_point, VScale(t, line_direction)))),
     contact_point1 |-> VAdd(line_point, VScale(t, line_direction)),
     contact_point2 |-> VAdd(segment_start, VScale(s, d)),
     t |-> t, s |-> s, branch |-> branch]

\* lines 208-219: the general nondegenerate case; s
llls_general_s(a, e, b, c, f) ==
    IF RSub(RMul(a, e), RMul(b, b)) # Zero
    THEN Clamp01(RDiv(RSub(RMul(b, f), RMul(c, e)),
                      RSub(RMul(a, e), RMul(b, b))))
    ELSE Zero

\* lines 178-224
_line_to_line_segment(line_point, line_direction, segment_start, segment_end, epsilon) ==
    LET d == VSub(segment_end, segment_start)
        a == Dot(d, d)
        e == Dot(line_direction, line_direction)
        r == VSub(segment_start, line_point)
        f == Dot(line_direction, r)
        c == Dot(d, r)
        b == Dot(d, line_direction)
    IN  IF RLt(a, epsilon) /\ RLt(e, epsilon)
        THEN [distance_sq |-> norm_sq(VSub(line_point, segment_start)),
              contact_point1 |-> segment_start,
              contact_point2 |-> line_point,
              t |-> None, s |-> None, branch |-> "both_degenerate"]
        ELSE IF RLt(a, epsilon)
        THEN llls_result(line_point, line_direction, segment_start, d,
                         RDiv(f, e), Zero, "first_degenerate")
        ELSE IF RLe(e, epsilon)
        THEN llls_result(line_point, line_direction, segment_start, d,
                         Zero, Clamp01(RDiv(RNeg(c), a)), "second_degenerate")
        ELSE llls_result(line_point, line_direction, segment_start, d,
                         RDiv(RAdd(RMul(b, llls_general_s(a, e, b, c, f)), f), e),
                         llls_general_s(a, e, b, c, f), "general")

\* lines 173-174: the first three elements (the branch and the parameters are
\* kept beside them)
line_to_line_segment(line_point, line_direction, segment_start, segment_end, epsilon) ==
    _line_to_line_segment(line_point, line_direction, segment_start, segment_end, epsilon)

(***************************************************************************)
(* SpecLLS: one call of line_to_line_segment.                              *)
(***************************************************************************)
\* the directions handed to line_to_line_segment: of unit length, or of length
\* zero (a line that degenerates into a point)
LineDirections == UnitDirections \cup {VZero}

InitLLS ==
    /\ pc = "line_to_line_segment"
    /\ args \in [line_point : LineGrid, line_direction : LineDirections,
                 segment_start : LineGrid, segment_end : LineGrid,
                 epsilon : LineEpsSet]
    /\ loc = None
    /\ ret = None

CallLLS ==
    /\ pc = "line_to_line_segment"
    /\ ret' = line_to_line_segment(args.line_point, args.line_direction,
                                   args.segment_start, args.segment_end,
                                   args.epsilon)
    /\ pc' = "done"
    /\ UNCHANGED <<args, loc>>

NextLLS == CallLLS

SpecLLS == InitLLS /\ [][NextLLS]_vars

(***************************************************************************)
(* Claims about line_to_line_segment (SpecLLS).                            *)
(***************************************************************************)
\* p lies on the line through line_point with direction line_direction (the
\* line of a zero direction is the point line_point)
OnLine(p, line_point, line_direction) ==
    /\ Cross(VSub(p, line_point), line_direction) = VZero
    /\ line_direction = VZero => p = line_point

\* C13: on every branch of line_to_line_segment, the both-degenerate branch
\* included, the second element returned is the contact point on the line,
\* line_point + t * line_direction, and the third is the contact point on the
\* segment, segment_start + s * (segment_end - segment_start), s in [0, 1].
C13_LineThenSegmentOrder ==
    pc = "done" =>
        /\ OnLine(ret.contact_point1, args.line_point, args.line_direction)
        /\ OnSegment(ret.contact_point2, args.segment_start, args.segment_end)
        /\ ret.branch # "both_degenerate" =>
              /\ ret.contact_point1 =
                     VAdd(args.line_point, VScale(ret.t, args.line_direction))
              /\ ret.contact_point2 =
                     VAdd(args.segment_start,
                          VScale(ret.s, VSub(args.segment_end, args.segment_start)))
              /\ RLe(Zero, ret.s) /\ RLe(ret.s, One)

(***************************************************************************)
(* distance.py: point_to_plane.  The distance is a dot product, not a      *)
(* norm: it is carried as it is.                                           *)
(***************************************************************************)
\* the closest point is computed from the absolute value of t
point_to_plane_absfirst(point, plane_point, plane_normal, signed) ==
    LET t == Dot(plane_normal, VSub(point, plane_point))
    IN  [dist |-> IF ~signed THEN RAbs(t) ELSE t,
         contact_point_plane |-> VSub(point, VScale(RAbs(t), plane_normal))]

\* lines 342-346
point_to_plane(point, plane_point, plane_normal, signed) ==
    LET t == Dot(plane_normal, VSub(point, plane_point))
    IN  [dist |-> IF ~signed THEN RAbs(t) ELSE t,
         contact_point_plane |-> VSub(point, VScale(t, plane_normal))]

(***************************************************************************)
(* SpecPTP: point_to_plane is called with signed=True, with signed=False,  *)
(* and with signed=True for the mirror image of the point across the       *)
(* plane.                                                                  *)
(***************************************************************************)
\* the mirror image of point across the plane
Mirror(point, plane_point, plane_normal) ==
    VSub(point, VScale(RMul(R(2), Dot(plane_normal, VSub(point, plane_point))),
                       plane_normal))

InitPTP ==
    /\ pc = "signed"
    /\ args \in [point : LineGrid, plane_point : LineGrid,
                 plane_normal : UnitDirections]
    /\ loc = [signed |-> None, unsigned |-> None, mirror |-> None]
    /\ ret = None

CallSigned ==
    /\ pc = "signed"
    /\ loc' = [loc EXCEPT !.signed =
                  point_to_plane(args.point, args.plane_point, args.plane_normal, TRUE)]
    /\ pc' = "unsigned"
    /\ UNCHANGED <<args, ret>>

CallUnsigned ==
    /\ pc = "unsigned"
    /\ loc' = [loc EXCEPT !.unsigned =
                  point_to_plane(args.point, args.plane_point, args.plane_normal, FALSE)]
    /\ pc' = "mirror"
    /\ UNCHANGED <<args, ret>>

CallMirror ==
    /\ pc = "mirror"
    /\ loc' = [loc EXCEPT !.mirror =
                  point_to_plane(Mirror(args.point, args.plane_point, args.plane_normal),
                                 args.plane_point, args.plane_normal, TRUE)]
    /\ pc' = "done"
    /\ UNCHANGED <<args, ret>>

NextPTP == CallSigned \/ CallUnsigned \/ CallMirror

SpecPTP == InitPTP /\ [][NextPTP]_vars

(***************************************************************************)
(* Claims about point_to_plane (SpecPTP).                                  *)
(***************************************************************************)
\* C14: for a unit normal, point_to_plane with signed=False returns the
\* absolute value of the distance returned with signed=True; the signed
\* distances of a point and of its mirror image across the plane are opposite;
\* the closest point is the same for both values of the flag and lies on the
\* plane.
C14_UnsignedIsAbsOfSigned ==
    pc = "done" =>
        /\ loc.unsigned.dist = RAbs(loc.signed.dist)
        /\ RGe(loc.unsigned.dist, Zero)
        /\ loc.mirror.dist = RNeg(loc.signed.dist)
        /\ loc.unsigned.contact_point_plane = loc.signed.contact_point_plane
        /\ Dot(args.plane_normal,
               VSub(loc.signed.contact_point_plane, args.plane_point)) = Zero

\* a point on the negative side of a plane whose normal is along no axis: the
\* signed distance is negative, the unsigned one positive, and the closest point
\* is not the point itself
C14_Witness ==
    /\ pc = "done"
    /\ RLt(loc.signed.dist, Zero)
    /\ RGt(loc.unsigned.dist, Zero)
    /\ RGt(loc.mirror.dist, Zero)
    /\ args.plane_normal[1] # Zero /\ args.plane_normal[2] # Zero
    /\ loc.signed.contact_point_plane # args.point

(***************************************************************************)
(* Claims about the keys of the contribution maps (SpecCF).                *)
(***************************************************************************)
\* the elements of a sequence
Range(seq) == {seq[k] : k \in DOMAIN seq}

\* the broad-phase candidate pairs <<i, j>> of the call
CandidatePairs ==
    Range(BroadPairs(1,
        tetrahedral_mesh_aabbs(loc.vertices1_in_mesh2, args.tetrahedra1),
        tetrahedral_mesh_aabbs(args.vertices2_in_mesh2, args.tetrahedra2)))

\* the tetrahedron has a vertex strictly below the contact plane and a vertex
\* on or above it
Straddles(vertices, tetrahedron) ==
    /\ \E j \in 1..4 :
          RLt(point_to_plane_signed(vertices[tetrahedron[j]],
                                    loc.contact_point, loc.normal), Zero)
    /\ \E j \in 1..4 :
          RGe(point_to_plane_signed(vertices[tetrahedron[j]],
                                    loc.contact_point, loc.normal), Zero)

\* the candidate pairs in which both tetrahedra straddle the plane and which
\* the exact intersection test confirmed
ConfirmedPairs ==
    {pr \in CandidatePairs :
        /\ Straddles(loc.vertices1_in_mesh2, args.tetrahedra1[pr[1]])
        /\ Straddles(args.vertices2_in_mesh2, args.tetrahedra2[pr[2]])
        /\ pr \in Range(loc.confirmed_pairs)}

\* C15: at the end of contact_forces, i is a key of the map of object 1 if and
\* only if some candidate pair <<i, j>> passed the straddle test on both sides
\* and was confirmed by the exact intersection test, and j is a key of the map
\* of object 2 if and only if such a pair <<i, j>> exists; nothing else adds to
\* a map, and the two maps are both empty or both non-empty.  (It holds of the
\* pairs seen so far at every point of the loop, and so at the end.)
C15_KeysAreConfirmedPairs ==
    pc \in {"PROJECT_AND_INTEGRATE", "ASSEMBLE_WRENCH", "RAISED", "DONE"} =>
        /\ DOMAIN loc.forces1 = {pr[1] : pr \in ConfirmedPairs}
        /\ DOMAIN loc.forces2 = {pr[2] : pr \in ConfirmedPairs}
        /\ Range(loc.keys1) = DOMAIN loc.forces1
        /\ Range(loc.keys2) = DOMAIN loc.forces2
        /\ pc = "DONE" => Range(loc.confirmed_pairs) = ConfirmedPairs
        /\ (DOMAIN loc.forces1 = {}) <=> (DOMAIN loc.forces2 = {})

\* a call has ended with a candidate pair that failed the straddle test, a kept
\* pair that the exact test rejected and a confirmed pair
C15_Witness ==
    /\ pc = "DONE"
    /\ ConfirmedPairs # {}
    /\ loc.calls.gjk > loc.calls.confirmed
    /\ \E pr \in CandidatePairs :
          ~(Straddles(loc.vertices1_in_mesh2, args.tetrahedra1[pr[1]])
            /\ Straddles(args.vertices2_in_mesh2, args.tetrahedra2[pr[2]]))
    /\ DOMAIN loc.forces1 # DOMAIN loc.forces2

(***************************************************************************)
(* Claims about the split of the quadrilateral (SpecTetra).                *)
(***************************************************************************)
\* the vertices of the tetrahedron of args with a negative, and with a
\* non-negative, signed distance, in ascending order
NegIndices == SelectSeq(<<1, 2, 3, 4>>, LAMBDA j : RLt(TetraDist[j], Zero))
NonNegIndices == SelectSeq(<<1, 2, 3, 4>>, LAMBDA j : RGe(TetraDist[j], Zero))
TetraVertex(j) == args.vertices[args.tetrahedra[1][j]]

\* twice the signed area of the triangle a, b, c of the contact plane (the
\* plane is normal to x)
Orient(a, b, c) == Cross(VSub(b, a), VSub(c, a))[1]
\* c and d lie on opposite sides of the line through a and b, or on it
OppositeSides(a, b, c, d) ==
    RLe(RMul(Orient(a, b, c), Orient(a, b, d)), Zero)

\* C16: for a two-against-two split, with the 4 polygon points in the order
\* the projector enumerates them, points 1 and 2 lie on tetrahedron edges
\* without a common vertex, as do points 0 and 3; the segment between points
\* 1 and 2, which the two triangles of polygon_area share, is a diagonal of the
\* quadrilateral: the triangles do not overlap and together cover it.
\* (Python's points 0, 1, 2, 3 are the model's 1, 2, 3, 4.)
C16_SplitAlongDiagonal ==
    (pc = "done" /\ NumNeg = 2 /\ NumNonNeg = 2) =>
        /\ loc.poly.exc = None /\ Len(loc.poly.value) = 4
        /\ OnSegment(loc.poly.value[1], TetraVertex(NegIndices[1]), TetraVertex(NonNegIndices[1]))
        /\ OnSegment(loc.poly.value[2], TetraVertex(NegIndices[1]), TetraVertex(NonNegIndices[2]))
        /\ OnSegment(loc.poly.value[3], TetraVertex(NegIndices[2]), TetraVertex(NonNegIndices[1]))
        /\ OnSegment(loc.poly.value[4], TetraVertex(NegIndices[2]), TetraVertex(NonNegIndices[2]))
        /\ {NegIndices[1], NonNegIndices[2]} \cap {NegIndices[2], NonNegIndices[1]} = {}
        /\ {NegIndices[1], NonNegIndices[1]} \cap {NegIndices[2], NonNegIndices[2]} = {}
        /\ OppositeSides(loc.poly.value[2], loc.poly.value[3],
                         loc.poly.value[1], loc.poly.value[4])
        /\ OppositeSides(loc.poly.value[1], loc.poly.value[4],
                         loc.poly.value[2], loc.poly.value[3])
        /\ ret.exc = None
        /\ ret.value =
               RMul(Q(1, 2),
                    RAdd(RAbs(Orient(loc.poly.value[2], loc.poly.value[3], loc.poly.value[1])),
                         RAbs(Orient(loc.poly.value[2], loc.poly.value[3], loc.poly.value[4]))))
        /\ ret.value =
               RMul(Q(1, 2),
                    RAbs(Cross(VSub(loc.poly.value[4], loc.poly.value[1]),
                               VSub(loc.poly.value[3], loc.poly.value[2]))[1]))

\* a two-against-two split with no vertex on the plane: the quadrilateral has
\* a positive area, it is no parallelogram, and points 0 and 3 lie strictly on
\* opposite sides of the segment between points 1 and 2
C16_Witness ==
    /\ pc = "done"
    /\ NumNeg = 2 /\ NumNonNeg = 2
    /\ loc.poly.exc = None
    /\ VSub(loc.poly.value[2], loc.poly.value[1])
           # VSub(loc.poly.value[4], loc.poly.value[3])
    /\ \A j \in 1..4 : TetraDist[j] # Zero
    /\ ret.exc = None /\ RGt(ret.value, Zero)
    /\ RLt(RMul(Orient(loc.poly.value[2], loc.poly.value[3], loc.poly.value[1]),
                Orient(loc.poly.value[2], loc.poly.value[3], loc.poly.value[4])), Zero)

=============================================================================
